---- MODULE Spec2Model ----
(***************************************************************************)
(* Model of the Squiss engine (src/src/index.ts): the receive loop, the    *)
(* in-flight counter, pause/resume, stop()/start(), the delete batcher and *)
(* the one-shot calls that touch the engine state.                         *)
(*                                                                         *)
(* One action is one turn of the JavaScript event loop: a public method    *)
(* called by the user, or one callback (promise continuation or timer).    *)
(* A chain of promise continuations that only passes a cached value on is  *)
(* folded into the callback that ends it.                                  *)
(***************************************************************************)
EXTENDS Integers, Sequences, FiniteSets

\* ---- bounds of the model -------------------------------------------------
MaxMsgs        == 2     \* messages received and not yet handled, at most
MaxPollers     == 2     \* _startPoller chains in progress, at most
MaxTimers      == 2     \* pending timers that call next(), at most
MaxReqs        == 2     \* receive request handles the model tells apart
MaxMsgId       == 2     \* message identifiers 1..MaxMsgId
MaxDelTimers   == 2     \* debounce timer handles the model tells apart
MaxCalls       == 1     \* followed delete / visibility calls outstanding, at most
MaxDeletes     == 3     \* deleteMessage calls whose futures are followed, at most
MaxSendLen     == 11    \* requests given to one sendMessages call, at most
MaxSendSize    == 2     \* size of a large request; a small one has size 1
PrepMax        == 3     \* MaximumMessageSize of the queue when one send is followed
PrepMinS3Size  == 2     \* minS3Size, when it is configured
MaxAttrNum     == 10    \* the largest number given as the value of an attribute

\* ---- program constants ---------------------------------------------------
AWS_MAX_SEND_BATCH == 10

VARIABLES
    opts,             \* this._opts after the constructor
    running,          \* this._running
    paused,           \* this._paused
    inFlight,         \* this._inFlight
    activeReq,        \* this._activeReq: handle of a receive request, 0 = undefined
    queueUrl,         \* this._queueUrl is set (cached)
    timeoutExtender,  \* this._timeoutExtender is set
    delQueue,         \* this._delQueue: message ids in insertion order
    delTimer,         \* this._delTimer: handle of a debounce timer, 0 = undefined
    reqs,             \* receive calls whose completion callback has not run yet
    pollers,          \* _startPoller() chains that have not reached _getBatch yet
    pollTimers,       \* pending setTimeout(next, active/idlePollIntervalMs)
    retryTimers,      \* pending setTimeout(next, pollRetryMs)
    parsing,          \* messages counted in flight whose parse() has not settled
    held,             \* messages given to the caller ('message') and not yet handled
    lost,             \* messages counted in flight whose parse() rejected
    signal,           \* the promise returned by one stop() call, the one that is followed
    delTimers,        \* debounce timers that are pending in the event loop
    delCalls,         \* batched delete calls that have not been answered
    relCalls,         \* changeMessageVisibility calls of releaseMessage not answered:
                      \* the timeout each one asks for
    follow,           \* what the caller of this behaviour waits for: the promise of a
                      \* stop() ("stop"), the answers to its delete and release calls
                      \* ("ack"), the futures of its deleteMessage calls ("del"),
                      \* the result of one sendMessages call ("send"), the
                      \* 'message' notifications of one receive response ("order"),
                      \* or the promise of the only stop() it calls ("drain")
    futs,             \* the futures returned by deleteMessage, in the order of the calls
    send,             \* the sendMessages call in progress
    recv,             \* the receive response that is followed: its records
    last              \* what the last turn did: operation, notifications, _getBatch outcome

fixed  == <<opts, follow>>
engine == <<running, paused, inFlight, activeReq, queueUrl, timeoutExtender,
            delQueue, delTimer>>
world  == <<reqs, pollers, pollTimers, retryTimers, parsing, held, lost, signal,
            delTimers, delCalls, relCalls>>
vars   == <<fixed, engine, world, last, futs, send, recv>>

Min(a, b) == IF a < b THEN a ELSE b

\* ---- the constructor -----------------------------------------------------
\* lines 191-194: the clamps applied to the options
Constructor(o) ==
    LET dbs == Min(o.deleteBatchSize, 10)
        rbs == Min(Min(o.receiveBatchSize, IF o.maxInFlight > 0 THEN o.maxInFlight ELSE 10), 10)
        mrb == Min(o.minReceiveBatchSize, rbs)
    IN  [o EXCEPT !.deleteBatchSize = dbs, !.receiveBatchSize = rbs,
                  !.minReceiveBatchSize = mrb]

\* the options given to the constructor; queueUrl: it is given (else queueName
\* only); visibilityTimeoutSecs is never given
Opt(mif, rbs, mrb, act, idl, dbs, ext, url) ==
    [maxInFlight |-> mif, receiveBatchSize |-> rbs, minReceiveBatchSize |-> mrb,
     activePollIntervalMs |-> act, idlePollIntervalMs |-> idl, deleteBatchSize |-> dbs,
     autoExtendTimeout |-> ext, queueUrl |-> url]

Options ==
    { Opt(2, 10, 1, 0, 0, 1, FALSE, FALSE),
      Opt(2, 2, 2, 0, 1, 1, FALSE, TRUE),
      Opt(0, 2, 1, 1, 0, 1, TRUE, TRUE) }

NoSignal == [outcome |-> "none"]

\* no sendMessages call is followed
NoSend == [pc |-> "none"]

\* no receive response is followed yet.  records: the number of records of the
\* response, numbered in the order of the service; pending: those whose parse()
\* has not settled; emitted: those given to the caller, in the order of the
\* 'message' notifications
NoRecv == [records |-> 0, pending |-> {}, emitted |-> <<>>]

NoStep == [op |-> "init", emitted |-> <<>>, getBatch |-> "none", requested |-> 0]

Step(o, e) == [op |-> o, emitted |-> e, getBatch |-> "none", requested |-> 0]

\* the state after new Squiss(o) for an o of O, in a behaviour of a profile of F
\* with a sendMessages call of S
InitWith(O, F, S) ==
    /\ opts \in {Constructor(o) : o \in O}
    /\ running = FALSE
    /\ paused = TRUE
    /\ inFlight = 0
    /\ activeReq = 0
    /\ queueUrl = opts.queueUrl
    /\ timeoutExtender = FALSE
    /\ delQueue = <<>>
    /\ delTimer = 0
    /\ reqs = {}
    /\ pollers = 0
    /\ pollTimers = 0
    /\ retryTimers = 0
    /\ parsing = 0
    /\ held = 0
    /\ lost = 0
    /\ signal = NoSignal
    /\ follow \in F
    /\ delTimers = {}
    /\ delCalls = <<>>
    /\ relCalls = <<>>
    /\ last = NoStep
    /\ futs = <<>>
    /\ send \in S
    /\ recv = NoRecv

Init == InitWith(Options, {"stop", "ack"}, {NoSend})

\* ---- _slotsAvailable, lines 661-663 ---------------------------------------
slotsAvailable(inf) == opts.maxInFlight = 0 \/ inf < opts.maxInFlight

\* ---- _getBatch, lines 562-583 ---------------------------------------------
\* line 563 without the test of _activeReq
getBatchReturnsNoActive(act, run) == ~run

\* line 563 without the test of _running
getBatchReturnsNoRunning(act, run) == act # 0

\* line 563: the early return
getBatchReturns(act, run) == act # 0 \/ ~run

\* lines 567-568 without the capacity that is left
maxMessagesToGetNoInFlight(inf) == opts.receiveBatchSize

\* lines 567-568
maxMessagesToGet(inf) ==
    IF opts.maxInFlight = 0 THEN opts.receiveBatchSize
    ELSE Min(opts.maxInFlight - inf, opts.receiveBatchSize)

\* a handle for a new request: one that no outstanding request has
FreshReq(rq) == CHOOSE i \in 1..MaxReqs : \A r \in rq : r.id # i

\* _getBatch called in a turn whose own assignments gave the current values
\* act (_activeReq), inf (_inFlight), pa (_paused), rq (outstanding calls);
\* st is what the turn did before the call.
getBatch(act, inf, pa, rq, st) ==
    IF getBatchReturns(act, running)
    THEN /\ activeReq' = act
         /\ paused' = pa
         /\ reqs' = rq
         /\ last' = [st EXCEPT !.getBatch = "return"]
    ELSE IF maxMessagesToGet(inf) < opts.minReceiveBatchSize
    THEN /\ activeReq' = act
         /\ paused' = TRUE
         /\ reqs' = rq
         /\ last' = [st EXCEPT !.getBatch = "pause"]
    ELSE /\ \E i \in 1..MaxReqs : \A r \in rq : r.id # i
         /\ activeReq' = FreshReq(rq)
         /\ paused' = pa
         /\ reqs' = rq \cup {[id |-> FreshReq(rq), n |-> maxMessagesToGet(inf),
                              aborted |-> FALSE]}
         /\ last' = [st EXCEPT !.getBatch = "issue", !.requested = maxMessagesToGet(inf)]

\* ---- start, lines 467-473 -------------------------------------------------
\* lines 468-470 without the early return
startReturnsNever(run) == FALSE

\* line 468
startReturns(run) == run

Start ==
    IF startReturns(running)
    THEN /\ last' = Step("start", <<>>)
         /\ UNCHANGED <<fixed, futs, send, recv, engine, world>>
    ELSE /\ pollers < MaxPollers
         /\ running' = TRUE
         /\ pollers' = pollers + 1
         /\ last' = Step("start", <<>>)
         /\ UNCHANGED <<fixed, futs, send, recv, paused, inFlight, activeReq, queueUrl, timeoutExtender,
                        delQueue, delTimer, reqs, pollTimers, retryTimers, parsing,
                        held, lost, signal, delTimers, delCalls, relCalls>>

\* ---- _startPoller, lines 665-672, with _initTimeoutExtender 617-636 -------
\* the visibility-timeout lookup is needed (visibilityTimeoutSecs is not configured)
extLookup == opts.autoExtendTimeout /\ ~timeoutExtender

\* the chain reaches _getBatch
PollerRun ==
    /\ pollers > 0
    /\ pollers' = pollers - 1
    /\ queueUrl' = TRUE
    /\ timeoutExtender' = (timeoutExtender \/ opts.autoExtendTimeout)
    /\ getBatch(activeReq, inFlight, paused, reqs, Step("poller", <<>>))
    /\ UNCHANGED <<fixed, futs, send, recv, running, inFlight, delQueue, delTimer, pollTimers, retryTimers,
                   parsing, held, lost, signal, delTimers, delCalls, relCalls>>

\* a lookup of the chain rejects: line 669-671
PollerFail ==
    /\ pollers > 0
    /\ extLookup \/ ~queueUrl
    /\ pollers' = pollers - 1
    /\ \/ /\ extLookup                      \* getQueueVisibilityTimeout rejects
          /\ queueUrl' \in {queueUrl, TRUE}
          /\ UNCHANGED timeoutExtender
       \/ /\ ~extLookup /\ ~queueUrl        \* getQueueUrl rejects
          /\ UNCHANGED <<queueUrl, timeoutExtender>>
    /\ last' = Step("pollerFail", <<"error">>)
    /\ UNCHANGED <<fixed, futs, send, recv, running, paused, inFlight, activeReq, delQueue, delTimer, reqs,
                   pollTimers, retryTimers, parsing, held, lost, signal, delTimers,
                   delCalls, relCalls>>

\* ---- the receive call answers: _getBatch, lines 584-605 --------------------
\* _emitMessages, lines 544-560: every record is counted before its parse() settles
emitMessages(inf, k) == inf + k

\* lines 545-555: the records of the response that is followed, each with its
\* parse() started
received(rc, k) ==
    IF follow = "order" /\ rc.records = 0 /\ k > 0
    THEN [records |-> k, pending |-> 1..k, emitted |-> <<>>]
    ELSE rc

ReceiveSuccess ==
    \E r \in reqs : \E k \in 0..r.n :
        /\ ~r.aborted
        /\ parsing + held + lost + k <= MaxMsgs
        /\ inFlight' = (IF k > 0 THEN emitMessages(inFlight, k) ELSE inFlight)
        /\ parsing' = parsing + k
        /\ LET ev == IF k > 0 THEN <<"gotMessages">> ELSE <<"queueEmpty">>
               rq == reqs \ {r}
           IN  IF slotsAvailable(inFlight')
               THEN IF (k > 0 /\ opts.activePollIntervalMs # 0)
                        \/ (k = 0 /\ opts.idlePollIntervalMs # 0)
                    THEN /\ pollTimers + retryTimers < MaxTimers
                         /\ pollTimers' = pollTimers + 1
                         /\ activeReq' = 0
                         /\ reqs' = rq
                         /\ last' = Step("receive", ev)
                         /\ UNCHANGED paused
                    ELSE /\ getBatch(0, inFlight', paused, rq, Step("receive", ev))
                         /\ UNCHANGED pollTimers
               ELSE /\ paused' = TRUE
                    /\ activeReq' = 0
                    /\ reqs' = rq
                    /\ last' = Step("receive", ev \o <<"maxInFlight">>)
                    /\ UNCHANGED pollTimers
        /\ recv' = received(recv, k)
        /\ UNCHANGED <<fixed, futs, send, running, queueUrl, timeoutExtender, delQueue, delTimer,
                       pollers, retryTimers, held, lost, signal, delTimers, delCalls,
                       relCalls>>

\* ---- the receive call fails: _getBatch, lines 606-614 ---------------------
\* line 608 with an error code that no failure has
isAbortNever(r) == FALSE

\* line 608: the failure is an abort
isAbort(r) == r.aborted

ReceiveFail ==
    \E r \in reqs :
        /\ activeReq' = 0
        /\ reqs' = reqs \ {r}
        /\ IF isAbort(r)
           THEN /\ last' = Step("receiveFail", <<"aborted">>)
                /\ UNCHANGED retryTimers
           ELSE /\ pollTimers + retryTimers < MaxTimers
                /\ retryTimers' = retryTimers + 1
                /\ last' = Step("receiveFail", <<"error">>)
        /\ UNCHANGED <<fixed, futs, send, recv, running, paused, inFlight, queueUrl, timeoutExtender,
                       delQueue, delTimer, pollers, pollTimers, parsing, held, lost,
                       signal, delTimers, delCalls, relCalls>>

\* ---- the timers that call next(), lines 596, 598, 611 ---------------------
PollTimer ==
    /\ pollTimers > 0
    /\ pollTimers' = pollTimers - 1
    /\ getBatch(activeReq, inFlight, paused, reqs, Step("pollTimer", <<>>))
    /\ UNCHANGED <<fixed, futs, send, recv, running, inFlight, queueUrl, timeoutExtender, delQueue,
                   delTimer, pollers, retryTimers, parsing, held, lost, signal,
                   delTimers, delCalls, relCalls>>

RetryTimer ==
    /\ retryTimers > 0
    /\ retryTimers' = retryTimers - 1
    /\ getBatch(activeReq, inFlight, paused, reqs, Step("retryTimer", <<>>))
    /\ UNCHANGED <<fixed, futs, send, recv, running, inFlight, queueUrl, timeoutExtender, delQueue,
                   delTimer, pollers, pollTimers, parsing, held, lost, signal,
                   delTimers, delCalls, relCalls>>

\* ---- message.parse() settles: _emitMessages, lines 555-558 ----------------
\* the messages whose parse() can settle next: a record of the response that is
\* followed, or (0) a message of another response
Settling ==
    recv.pending \cup (IF parsing > Cardinality(recv.pending) THEN {0} ELSE {})

\* lines 556-558: 'message' is emitted when the parse() of the record resolves
parsed(rc, p) ==
    IF p = 0 THEN rc
    ELSE [rc EXCEPT !.pending = @ \ {p}, !.emitted = Append(@, p)]

ParseDone ==
    /\ parsing > 0
    /\ parsing' = parsing - 1
    /\ held' = held + 1
    /\ last' = Step("parse", <<"message">>)
    /\ \E p \in Settling : recv' = parsed(recv, p)
    /\ UNCHANGED <<fixed, futs, send, engine, reqs, pollers, pollTimers, retryTimers, lost, signal,
                   delTimers, delCalls, relCalls>>

\* parse() rejects (a blob fetch or a decompression fails): no handler is attached
ParseFail ==
    /\ parsing > 0
    /\ parsing' = parsing - 1
    /\ lost' = lost + 1
    /\ last' = Step("parseFail", <<>>)
    /\ \E p \in Settling : recv' = [recv EXCEPT !.pending = @ \ {p}]
    /\ UNCHANGED <<fixed, futs, send, engine, reqs, pollers, pollTimers, retryTimers, held, signal,
                   delTimers, delCalls, relCalls>>

\* ---- stop, lines 475-505 --------------------------------------------------
\* the promise API: a settled promise ignores later resolve() calls
Settle(outcome, v) == IF outcome = "pending" THEN v ELSE outcome

\* line 476
stopAborts(soft, act) == ~soft /\ act # 0

\* lines 481-504: the promise stop returns.  listening: the 'drained' listener
\* is registered; resolved: the flag of the closure; timer: the timeout is pending.
stopSignal(inf, timeout) ==
    IF inf = 0
    THEN [outcome |-> "true", listening |-> FALSE, resolved |-> FALSE,
          timer |-> FALSE, timeout |-> timeout]
    ELSE [outcome |-> "pending", listening |-> TRUE, resolved |-> FALSE,
          timer |-> timeout, timeout |-> timeout]

\* timeout: a timeout is given.  track: this call's promise is the one followed.
Stop ==
    \E soft \in BOOLEAN, timeout \in BOOLEAN, track \in BOOLEAN :
        /\ track => (follow \in {"stop", "drain"} /\ signal = NoSignal)
        /\ follow = "drain" => track
        /\ reqs' = IF stopAborts(soft, activeReq)
                   THEN {IF r.id = activeReq THEN [r EXCEPT !.aborted = TRUE] ELSE r
                            : r \in reqs}
                   ELSE reqs
        /\ running' = FALSE
        /\ paused' = FALSE
        /\ signal' = IF track THEN stopSignal(inFlight, timeout) ELSE signal
        /\ last' = Step(IF soft THEN "stopSoft" ELSE "stopHard", <<>>)
        /\ UNCHANGED <<fixed, futs, send, recv, inFlight, activeReq, queueUrl, timeoutExtender, delQueue,
                       delTimer, pollers, pollTimers, retryTimers, parsing, held, lost,
                       delTimers, delCalls, relCalls>>

\* lines 499-502: the timeout of the stop() expires
stopTimeout(s) ==
    [s EXCEPT !.resolved = TRUE, !.timer = FALSE, !.outcome = Settle(@, "false")]

StopTimer ==
    /\ signal # NoSignal
    /\ signal.timer
    /\ signal' = stopTimeout(signal)
    /\ last' = Step("stopTimer", <<>>)
    /\ UNCHANGED <<fixed, futs, send, recv, engine, reqs, pollers, pollTimers, retryTimers, parsing, held,
                   lost, delTimers, delCalls, relCalls>>

\* lines 488-497: the 'drained' listener of the stop()
drainedListener(s) ==
    IF s.listening /\ ~s.resolved
    THEN [s EXCEPT !.resolved = TRUE, !.timer = FALSE, !.outcome = Settle(@, "true")]
    ELSE s

Drained(s) == IF s = NoSignal THEN s ELSE drainedListener(s)

\* ---- handledMessage, lines 366-377 ----------------------------------------
\* line 367 missing
handledInFlightKeeps(inf) == inf

\* line 367
handledInFlight(inf) == inf - 1

\* line 368 without the test of _paused
handledResumesAlways(pa, inf) == slotsAvailable(inf)

\* line 368
handledResumes(pa, inf) == pa /\ slotsAvailable(inf)

\* lines 372-376
handledEmits(inf) == <<"handled">> \o (IF inf = 0 THEN <<"drained">> ELSE <<>>)

\* the body of handledMessage, for the three methods that run it
handledMessage ==
    /\ inFlight' = handledInFlight(inFlight)
    /\ IF handledResumes(paused, inFlight')
       THEN /\ pollers < MaxPollers
            /\ paused' = FALSE
            /\ pollers' = pollers + 1
       ELSE UNCHANGED <<paused, pollers>>
    /\ signal' = IF inFlight' = 0 THEN Drained(signal) ELSE signal

HandledMessage ==
    /\ held > 0
    /\ held' = held - 1
    /\ handledMessage
    /\ last' = Step("handledMessage", handledEmits(inFlight'))
    /\ UNCHANGED <<fixed, futs, send, recv, running, activeReq, queueUrl, timeoutExtender, delQueue,
                   delTimer, reqs, pollTimers, retryTimers, parsing, lost, delTimers,
                   delCalls, relCalls>>

\* ---- releaseMessage, lines 379-386, changeMessageVisibility 212-231 -------
\* line 381: the visibility timeout that releaseMessage asks for
releaseTimeout == 0

\* the body of releaseMessage up to the call, lines 380-381
ReleaseMessage ==
    /\ held > 0
    /\ held' = held - 1
    /\ handledMessage
    /\ IF follow = "ack"
       THEN /\ Len(delCalls) + Len(relCalls) < MaxCalls
            /\ relCalls' = Append(relCalls, releaseTimeout)
       ELSE UNCHANGED relCalls
    /\ last' = Step("releaseMessage", handledEmits(inFlight'))
    /\ UNCHANGED <<fixed, futs, send, recv, running, activeReq, queueUrl, timeoutExtender, delQueue,
                   delTimer, reqs, pollTimers, retryTimers, parsing, lost, delTimers,
                   delCalls>>

\* lines 381-385: the call succeeded; the promise of releaseMessage resolves
ReleaseDone ==
    /\ relCalls # <<>>
    /\ relCalls' = Tail(relCalls)
    /\ queueUrl' = TRUE
    /\ last' = Step("released", <<"released">>)
    /\ UNCHANGED <<fixed, futs, send, recv, running, paused, inFlight, activeReq, timeoutExtender, delQueue,
                   delTimer, reqs, pollers, pollTimers, retryTimers, parsing, held, lost,
                   signal, delTimers, delCalls>>

\* line 381 with a handler that gives the slot back
releaseRejectedRestores(inf) == inf + 1

\* line 381: no handler is attached for the rejection of the call
releaseRejected(inf) == inf

\* getQueueUrl or the call rejects, and so does the promise of releaseMessage
ReleaseFail ==
    /\ relCalls # <<>>
    /\ relCalls' = Tail(relCalls)
    /\ queueUrl' \in {queueUrl, TRUE}
    /\ inFlight' = releaseRejected(inFlight)
    /\ last' = Step("releaseFail", <<>>)
    /\ UNCHANGED <<fixed, futs, send, recv, running, paused, activeReq, timeoutExtender, delQueue,
                   delTimer, reqs, pollers, pollTimers, retryTimers, parsing, held, lost,
                   signal, delTimers, delCalls>>

\* ---- deleteMessage, lines 258-296 -----------------------------------------
Range(q) == {q[i] : i \in DOMAIN q}

\* the keys of the _delQueue Map, or the Ids of a batch
Ids(q) == {q[i].Id : i \in DOMAIN q}

\* lines 261-264: the future of a call that is followed.  state: of the promise;
\* calls: the batched calls that carried its entry; answer: what the service
\* said about the entry ("failed", "successful", or "error" when the whole call
\* failed); notes: the notifications emitted about the entry
NewFuture == [state |-> "pending", calls |-> 0, answer |-> "none", notes |-> <<>>]

\* line 263: Map.set replaces the value of a key that is already queued and
\* keeps its position
delQueueSet(q, e) ==
    IF e.Id \in Ids(q)
    THEN [i \in DOMAIN q |-> IF q[i].Id = e.Id THEN e ELSE q[i]]
    ELSE Append(q, e)

\* line 269 with > for >=
flushBySizeAbove(q) == Len(q) > opts.deleteBatchSize

\* line 269
flushBySize(q) == Len(q) >= opts.deleteBatchSize

\* lines 274-280 and 285-291: the first n entries leave the queue
delBatch(q, n) == SubSeq(q, 1, n)

\* lines 274-280 and 285-291 without delQueue.delete
delRestKeeps(q, n) == q

delRest(q, n) == SubSeq(q, n + 1, Len(q))

\* the futures whose entries a batched call carries
issued(fs, batch) ==
    [f \in DOMAIN fs |->
        IF \E i \in DOMAIN batch : batch[i].fut = f
        THEN [fs[f] EXCEPT !.calls = @ + 1] ELSE fs[f]]

\* _deleteMessages, lines 507-521: the batched call is issued
deleteMessages(batch, fs) ==
    IF follow \in {"ack", "del"}
    THEN /\ Len(delCalls) + Len(relCalls) < MaxCalls
         /\ delCalls' = Append(delCalls, batch)
         /\ futs' = issued(fs, batch)
    ELSE /\ UNCHANGED delCalls
         /\ futs' = fs

FreshDelTimer == CHOOSE t \in 1..MaxDelTimers : t \notin delTimers

DeleteMessage ==
    \E id \in 1..MaxMsgId :
        /\ held > 0
        /\ follow = "del" => Len(futs) < MaxDeletes
        /\ held' = held - 1
        /\ handledMessage
        /\ last' = Step("deleteMessage", <<"delQueued">> \o handledEmits(inFlight'))
        /\ LET f  == IF follow = "del" THEN Len(futs) + 1 ELSE 0
               fs == IF follow = "del" THEN Append(futs, NewFuture) ELSE futs
               q  == delQueueSet(delQueue, [Id |-> id, fut |-> f])
           IN  IF flushBySize(q)
               THEN /\ delTimers' = delTimers \ {delTimer}
                    /\ delTimer' = 0
                    /\ delQueue' = delRest(q, opts.deleteBatchSize)
                    /\ deleteMessages(delBatch(q, opts.deleteBatchSize), fs)
               ELSE IF delTimer = 0
               THEN /\ delTimers # 1..MaxDelTimers
                    /\ delTimer' = FreshDelTimer
                    /\ delTimers' = delTimers \cup {FreshDelTimer}
                    /\ delQueue' = q
                    /\ futs' = fs
                    /\ UNCHANGED delCalls
               ELSE /\ delQueue' = q
                    /\ futs' = fs
                    /\ UNCHANGED <<delTimer, delTimers, delCalls>>
        /\ UNCHANGED <<fixed, send, recv, running, activeReq, queueUrl, timeoutExtender, reqs,
                       pollTimers, retryTimers, parsing, lost, relCalls>>

\* lines 283-293: a debounce timer expires
DelTimer ==
    \E t \in delTimers :
        /\ delTimers' = delTimers \ {t}
        /\ delTimer' = 0
        /\ delQueue' = delRest(delQueue, Len(delQueue))
        /\ deleteMessages(delBatch(delQueue, Len(delQueue)), futs)
        /\ last' = Step("delTimer", <<>>)
        /\ UNCHANGED <<fixed, send, recv, running, paused, inFlight, activeReq, queueUrl,
                       timeoutExtender, reqs, pollers, pollTimers, retryTimers, parsing,
                       held, lost, signal, relCalls>>

\* ---- _deleteMessages, lines 507-542 ---------------------------------------
Remove(q, i) == SubSeq(q, 1, i - 1) \o SubSeq(q, i + 1, Len(q))

\* lines 523-537: the notifications of the engine for the Failed list, then for
\* the Successful list
deleteEmits(batch, failed) ==
    LET F == SelectSeq(batch, LAMBDA e : e.Id \in failed)
        S == SelectSeq(batch, LAMBDA e : e.Id \notin failed)
    IN  [i \in DOMAIN F |-> "delError"] \o [i \in DOMAIN S |-> "deleted"]

\* a promise settles once: resolve and reject of a settled promise do nothing
settleFuture(state, v) == IF state = "pending" THEN v ELSE state

\* lines 524-528 with the handling of the Successful list
deleteFailedResolves(fu) ==
    [fu EXCEPT !.notes = @ \o <<"deleted", "msg.deleted">>,
               !.state = settleFuture(@, "resolved")]

\* lines 524-528: an entry of the Failed list
deleteFailed(fu) ==
    [fu EXCEPT !.notes = @ \o <<"delError", "msg.delError">>,
               !.state = settleFuture(@, "rejected")]

\* lines 531-536: an entry of the Successful list
deleteSucceeded(fu) ==
    [fu EXCEPT !.notes = @ \o <<"deleted", "msg.deleted">>,
               !.state = settleFuture(@, "resolved")]

\* lines 522-537: the futures after the answer to a batched call; answer
\* records the list in which the service put the entry
deleteAnswered(fs, batch, failed) ==
    [f \in DOMAIN fs |->
        IF \E i \in DOMAIN batch : batch[i].fut = f /\ batch[i].Id \in failed
        THEN deleteFailed([fs[f] EXCEPT !.answer = "failed"])
        ELSE IF \E i \in DOMAIN batch : batch[i].fut = f
        THEN deleteSucceeded([fs[f] EXCEPT !.answer = "successful"])
        ELSE fs[f]]

\* lines 538-541 with a catch that rejects the futures of the batch
deleteRejectedSettles(fs, batch) ==
    [f \in DOMAIN fs |->
        IF \E i \in DOMAIN batch : batch[i].fut = f
        THEN [fs[f] EXCEPT !.answer = "error", !.state = settleFuture(@, "rejected")]
        ELSE fs[f]]

\* lines 538-541: the futures after a batched call that failed as a whole
deleteRejected(fs, batch) ==
    [f \in DOMAIN fs |->
        IF \E i \in DOMAIN batch : batch[i].fut = f
        THEN [fs[f] EXCEPT !.answer = "error"] ELSE fs[f]]

\* the batched call is answered: the service lists every entry as failed or
\* as successful
DelCallDone ==
    \E i \in DOMAIN delCalls : \E failed \in SUBSET Ids(delCalls[i]) :
        /\ delCalls' = Remove(delCalls, i)
        /\ queueUrl' = TRUE
        /\ futs' = deleteAnswered(futs, delCalls[i], failed)
        /\ last' = Step("deleted", deleteEmits(delCalls[i], failed))
        /\ UNCHANGED <<fixed, send, recv, running, paused, inFlight, activeReq, timeoutExtender,
                       delQueue, delTimer, reqs, pollers, pollTimers, retryTimers,
                       parsing, held, lost, signal, delTimers, relCalls>>

\* lines 538-541: getQueueUrl or the batched call rejects
DelCallFail ==
    \E i \in DOMAIN delCalls :
        /\ delCalls' = Remove(delCalls, i)
        /\ queueUrl' \in {queueUrl, TRUE}
        /\ futs' = deleteRejected(futs, delCalls[i])
        /\ last' = Step("deleteFail", <<"error">>)
        /\ UNCHANGED <<fixed, send, recv, running, paused, inFlight, activeReq, timeoutExtender,
                       delQueue, delTimer, reqs, pollers, pollTimers, retryTimers,
                       parsing, held, lost, signal, delTimers, relCalls>>

\* ---- purgeQueue, lines 388-399 --------------------------------------------
\* The call assigns nothing before the service answers, so the model has one
\* action for each answer.  lines 393-398:
PurgeQueue ==
    /\ queueUrl' = TRUE
    /\ inFlight' = 0
    /\ delQueue' = <<>>
    /\ delTimer' = 0
    /\ last' = Step("purgeQueue", <<>>)
    /\ UNCHANGED <<fixed, futs, send, recv, running, paused, activeReq, timeoutExtender, world>>

\* getQueueUrl or the purge call rejects
PurgeFail ==
    /\ queueUrl' \in {queueUrl, TRUE}
    /\ last' = Step("purgeFail", <<>>)
    /\ UNCHANGED <<fixed, futs, send, recv, running, paused, inFlight, activeReq, timeoutExtender, delQueue,
                   delTimer, world>>

Next ==
    \/ Start
    \/ Stop
    \/ StopTimer
    \/ PollerRun
    \/ PollerFail
    \/ ReceiveSuccess
    \/ ReceiveFail
    \/ PollTimer
    \/ RetryTimer
    \/ ParseDone
    \/ ParseFail
    \/ HandledMessage
    \/ DeleteMessage
    \/ DelCallDone
    \/ DelCallFail
    \/ ReleaseMessage
    \/ ReleaseDone
    \/ ReleaseFail
    \/ PurgeQueue
    \/ PurgeFail

Spec == Init /\ [][Next]_vars

\* ---- the delete batcher --------------------------------------------------
\* An engine with deleteBatchSize 2 that is started once; the application
\* deletes every message it is given and follows the futures of the calls.
OptionsDel == { Opt(2, 2, 1, 0, 0, 2, FALSE, TRUE) }

InitDel == InitWith(OptionsDel, {"del"}, {NoSend})

NextDel ==
    \/ Start
    \/ PollerRun
    \/ ReceiveSuccess
    \/ ParseDone
    \/ DeleteMessage
    \/ DelTimer
    \/ DelCallDone
    \/ DelCallFail
    \/ PurgeQueue

SpecDel == InitDel /\ [][NextDel]_vars

\* ---- the order of the 'message' notifications -----------------------------
\* An engine that is started once; the application handles the messages it is
\* given, and the records of the first response that has any are followed.
OptionsOrder == { Opt(2, 2, 1, 0, 0, 1, FALSE, TRUE) }

InitOrder == InitWith(OptionsOrder, {"order"}, {NoSend})

NextOrder ==
    \/ Start
    \/ PollerRun
    \/ ReceiveSuccess
    \/ ParseDone
    \/ ParseFail
    \/ HandledMessage

SpecOrder == InitOrder /\ [][NextOrder]_vars

\* ---- the limit of the messages in flight -----------------------------------
\* Engines with maxInFlight 1: the bound MaxMsgs of the model is above the limit.
OptionsCap ==
    { Opt(1, 10, 1, 0, 1, 1, FALSE, FALSE),
      Opt(1, 1, 1, 1, 0, 1, TRUE, TRUE) }

InitCap == InitWith(OptionsCap, {"stop", "ack"}, {NoSend})

SpecCap == InitCap /\ [][Next]_vars

\* ---- one stop() -----------------------------------------------------------
\* The application calls stop() once and follows its promise; start() may be
\* called before and after it.
InitDrain == InitWith(Options, {"drain"}, {NoSend})

NextDrain ==
    \/ Start
    \/ Stop
    \/ StopTimer
    \/ PollerRun
    \/ PollerFail
    \/ ReceiveSuccess
    \/ ReceiveFail
    \/ PollTimer
    \/ RetryTimer
    \/ ParseDone
    \/ HandledMessage

SpecDrain == InitDrain /\ [][NextDrain]_vars

\* ---- one stop(), with decode steps that fail --------------------------------
\* As before, and the parse() of a record may reject.
NextLeak == NextDrain \/ ParseFail

SpecLeak == InitDrain /\ [][NextLeak]_vars

\* ---- the delete batcher without purgeQueue --------------------------------
\* Engines with deleteBatchSize 1, 2 and 3 whose application deletes every
\* message it is given and never calls purgeQueue.
OptionsBatch == { Opt(2, 2, 1, 0, 0, dbs, FALSE, TRUE) : dbs \in 1..MaxDeletes }

InitBatch == InitWith(OptionsBatch, {"del"}, {NoSend})

NextBatch ==
    \/ Start
    \/ PollerRun
    \/ ReceiveSuccess
    \/ ParseDone
    \/ DeleteMessage
    \/ DelTimer
    \/ DelCallDone
    \/ DelCallFail

SpecBatch == InitBatch /\ [][NextBatch]_vars

\* ---- the claims -----------------------------------------------------------
Handles == {"handledMessage", "deleteMessage", "releaseMessage"}

Count(q, e) == Cardinality({i \in DOMAIN q : q[i] = e})

Continuations == Cardinality(reqs) + pollers + pollTimers + retryTimers

\* min(receiveBatchSize, maxInFlight - inFlight) in the current state,
\* receiveBatchSize when maxInFlight is 0 (no limit)
RequestSize ==
    IF opts.maxInFlight = 0 THEN opts.receiveBatchSize
    ELSE IF opts.receiveBatchSize <= opts.maxInFlight - inFlight
         THEN opts.receiveBatchSize ELSE opts.maxInFlight - inFlight

\* C1: in every reachable state at most one receive call is outstanding.
C1_OneReceiveCall == Cardinality(reqs) <= 1

\* a _getBatch of a running engine returned at once because a call is outstanding
C1_Witness == running /\ last.getBatch = "return" /\ Cardinality(reqs) = 1

\* C2: the in-flight counter is never negative.
C2_InFlightNotNegative == inFlight >= 0

\* C3: once every received message is handled inFlight is 0; 'drained' is emitted
\* exactly once for each return of inFlight to zero, by the handledMessage that
\* brings it there and after its 'handled', and never while inFlight is not zero.
C3_DrainedOncePerDrain ==
    /\ []((parsing = 0 /\ held = 0 /\ lost = 0) => inFlight = 0)
    /\ [][(inFlight # 0 /\ inFlight' = 0) => Count(last'.emitted, "drained") = 1]_vars
    /\ [](Count(last.emitted, "drained") > 0 =>
            /\ inFlight = 0
            /\ last.op \in Handles
            /\ Count(last.emitted, "drained") = 1
            /\ \E i, j \in DOMAIN last.emitted :
                  i < j /\ last.emitted[i] = "handled" /\ last.emitted[j] = "drained")

\* the parts of C4 that do not depend on minReceiveBatchSize: no receive call
\* is issued while inFlight has reached maxInFlight, and a handledMessage starts
\* the poller exactly when it finds the engine paused and leaves a free slot,
\* clearing the paused flag (so the next handledMessage starts none).
C4_NoCallAtMax == last.getBatch = "issue" => slotsAvailable(inFlight)

C4_ResumeOnce ==
    last'.op \in Handles =>
        IF paused /\ (opts.maxInFlight = 0 \/ inFlight' < opts.maxInFlight)
        THEN pollers' = pollers + 1 /\ ~paused'
        ELSE pollers' = pollers /\ paused' = paused

C5_RequestedBatchSize ==
    /\ [](last.getBatch = "issue" =>
            /\ RequestSize >= opts.minReceiveBatchSize
            /\ last.requested = RequestSize
            /\ \E r \in reqs : r.id = activeReq /\ r.n = RequestSize /\ ~r.aborted)
    /\ [](last.getBatch = "pause" =>
            RequestSize < opts.minReceiveBatchSize /\ paused /\ activeReq = 0)
    /\ [][(paused /\ ~paused') =>
            \/ last'.op \in Handles /\ slotsAvailable(inFlight')
            \/ last'.op \in {"stopSoft", "stopHard"}]_vars

\* a call that asks for less than receiveBatchSize because of the capacity left
C5_Witness ==
    last.getBatch = "issue" /\ inFlight = 1 /\ last.requested = 1
        /\ opts.receiveBatchSize = 2

\* C6: the promise of stop() settles at most once; it is true at once when
\* inFlight is 0 at the call, else it becomes true when inFlight next reaches
\* zero ('drained'), or false when the timeout expires first; without a timeout
\* it never becomes false.
C6_StopSignal ==
    /\ [][(signal = NoSignal /\ signal' # NoSignal) =>
            signal'.outcome = (IF inFlight = 0 THEN "true" ELSE "pending")]_vars
    /\ [][(signal # NoSignal /\ signal.outcome # "pending") =>
            (signal' # NoSignal /\ signal'.outcome = signal.outcome)]_vars
    /\ [][(signal # NoSignal /\ signal.outcome = "pending"
              /\ inFlight # 0 /\ inFlight' = 0) => signal'.outcome = "true"]_vars
    /\ [][(signal # NoSignal /\ signal.outcome = "pending"
              /\ signal'.outcome = "true") =>
            inFlight' = 0 /\ Count(last'.emitted, "drained") = 1]_vars
    /\ [][(signal # NoSignal /\ signal.outcome = "pending"
              /\ signal'.outcome = "false") =>
            last'.op = "stopTimer" /\ signal.timeout]_vars
    /\ []((signal # NoSignal /\ ~signal.timeout) => signal.outcome # "false")

\* C7: a receive call is issued only while the running flag is set, so none is
\* issued between stop() and the next start().
C7_NoCallWhenStopped == last.getBatch = "issue" => running

\* after stop(), a timer or a poller start reached _getBatch with no call
\* outstanding, and _getBatch returned
C7_Witness ==
    /\ ~running /\ activeReq = 0 /\ reqs = {}
    /\ last.getBatch = "return" /\ last.op \in {"retryTimer", "pollTimer", "poller"}

\* C8: a hard stop() aborts the outstanding receive call, a soft stop() aborts
\* none; a receive call that fails by an abort emits 'aborted' only, and starts
\* no timer and no call.
C8_Abort ==
    /\ [][last'.op = "stopHard" =>
            \A r \in reqs : \E a \in reqs' : a.id = r.id /\ a.aborted]_vars
    /\ [][last'.op = "stopSoft" => reqs' = reqs]_vars
    /\ [][(last'.op = "receiveFail" /\ \E r \in reqs \ reqs' : r.aborted) =>
            /\ last'.emitted = <<"aborted">>
            /\ reqs' \subseteq reqs
            /\ retryTimers' = retryTimers /\ pollTimers' = pollTimers
            /\ pollers' = pollers]_vars

\* the callback of an aborted call has run
C8_Witness == last.op = "receiveFail" /\ last.emitted = <<"aborted">> /\ ~running

\* C9: after a failure that is not an abort (of a receive call, or of a lookup
\* while the poller starts) 'error' is emitted and the loop goes on: a timer, a
\* poller start or a call is pending.
C9_LoopSurvivesErrors ==
    (last.op \in {"receiveFail", "pollerFail"} /\ last.emitted # <<"aborted">>) =>
        /\ last.emitted = <<"error">>
        /\ Continuations > 0

\* C10: start() on a running engine changes nothing.
C10_StartIdempotent ==
    [][(last'.op = "start" /\ running) => UNCHANGED <<fixed, futs, send, recv, engine, world>>]_vars

\* start() was called while a receive call was outstanding and no poller start
\* was pending: the call started none
C10_Witness == last.op = "start" /\ running /\ pollers = 0 /\ Cardinality(reqs) = 1

\* ---- sendMessages, lines 418-465 ------------------------------------------
\* A request is modelled by its size, the value getMessageSize gives for it.
\* msgs: the sizes of the prepared requests in the order of the input list;
\* max: the value of getQueueMaximumMessageSize.
SendCall(msgs, max) == [pc |-> "called", msgs |-> msgs, max |-> max]

SendSizes == {1, MaxSendSize}

SendInputs ==
    { SendCall(msgs, max) :
        msgs \in UNION {[1..n -> SendSizes] : n \in 0..MaxSendLen},
        max \in {MaxSendSize, MaxSendSize + 1, MaxSendLen + 1} }

\* lines 443-444 without the size limit
startsBatchByCount(len, size, messageSize, max) == len % AWS_MAX_SEND_BATCH = 0

\* lines 443-444 with the count tested for an empty list of batches only
startsBatchBySize(len, size, messageSize, max) ==
    len = 0 \/ size + messageSize >= max

\* lines 443-444: the request starts a new batch
startsBatch(len, size, messageSize, max) ==
    len % AWS_MAX_SEND_BATCH = 0 \/ size + messageSize >= max

\* lines 441-451: one turn of the forEach.  b: batches (a batch is the list of
\* the positions of its requests in the input, from 0), currentBatchSize,
\* currentBatchLength; i: the request, from 1
addToBatch(b, msgs, max, i) ==
    IF startsBatch(b.currentBatchLength, b.currentBatchSize, msgs[i], max)
    THEN [batches |-> Append(b.batches, <<i - 1>>),
          currentBatchSize |-> msgs[i], currentBatchLength |-> 1]
    ELSE [batches |-> [b.batches EXCEPT ![Len(b.batches)] = Append(@, i - 1)],
          currentBatchSize |-> b.currentBatchSize + msgs[i],
          currentBatchLength |-> b.currentBatchLength + 1]

\* lines 439-452: the batches made of the first n requests
RECURSIVE makeBatches(_, _, _)
makeBatches(msgs, max, n) ==
    IF n = 0
    THEN [batches |-> <<>>, currentBatchSize |-> 0, currentBatchLength |-> 0]
    ELSE addToBatch(makeBatches(msgs, max, n - 1), msgs, max, n)

\* Number.prototype.toString of a natural number: its decimal digits
RECURSIVE toString(_)
toString(n) == IF n < 10 THEN <<n>> ELSE toString(n \div 10) \o <<n % 10>>

\* _sendMessageBatch, lines 640-653: the Id of each entry of the call
sendMessageBatch(batch, startIndex) ==
    [idx \in DOMAIN batch |-> toString(startIndex + (idx - 1))]

\* lines 453-455: every batch is submitted, batch idx (from 0) with
\* startIndex idx * AWS_MAX_SEND_BATCH
submitBatches(batches) ==
    [b \in DOMAIN batches |->
        sendMessageBatch(batches[b], (b - 1) * AWS_MAX_SEND_BATCH)]

\* lines 435-456: the requests are prepared and the maximum size is known
SendMessages ==
    /\ send # NoSend
    /\ send.pc = "called"
    /\ LET b == makeBatches(send.msgs, send.max, Len(send.msgs)).batches
       IN  send' = [pc |-> "sent", msgs |-> send.msgs, max |-> send.max,
                    batches |-> b, ids |-> submitBatches(b)]
    /\ queueUrl' = TRUE
    /\ last' = Step("sendMessages", <<>>)
    /\ UNCHANGED <<fixed, futs, recv, running, paused, inFlight, activeReq, timeoutExtender,
                   delQueue, delTimer, world>>

\* line 435: the preparation of a request or the lookup of the maximum size
\* rejects, and so does the call
SendFail ==
    /\ send # NoSend
    /\ send.pc = "called"
    /\ send' = [pc |-> "rejected", msgs |-> send.msgs, max |-> send.max,
                batches |-> <<>>, ids |-> <<>>]
    /\ queueUrl' \in {queueUrl, TRUE}
    /\ last' = Step("sendFail", <<>>)
    /\ UNCHANGED <<fixed, futs, recv, running, paused, inFlight, activeReq, timeoutExtender,
                   delQueue, delTimer, world>>

InitSend == InitWith(Options, {"send"}, SendInputs)

NextSend == SendMessages \/ SendFail

SpecSend == InitSend /\ [][NextSend]_vars

\* ---- sendMessage and sendMessages of one message, lines 401-465, 690-768 --
\* The call is followed from the preparation of the request to the send call.
\* A network call is outstanding from the turn that issues it to the turn of
\* its answer; here every call is answered with success.
\* the options of the constructor with those of the blob offload; minS3Size 0:
\* not configured
OptSend(o, fallback, minSize) ==
    [k \in DOMAIN o \cup {"s3Fallback", "minS3Size"} |->
        IF k = "s3Fallback" THEN fallback ELSE IF k = "minS3Size" THEN minSize ELSE o[k]]

OptionsPrep ==
    { OptSend(Opt(2, 10, 1, 0, 0, 1, FALSE, url), fallback, minSize) :
        url \in BOOLEAN, fallback \in BOOLEAN, minSize \in {0, PrepMinS3Size} }

\* what the attributes given by the caller hold under the name of a marker:
\* nothing, a value that JavaScript takes as false (0, ''), or any other value
AttrValues == {"absent", "falsy", "truthy"}

\* api: the method called; gzipAttr, s3Attr: the attributes given under the two
\* marker names; gzip: the compression step compresses the body; size:
\* getMessageSize of the request after that step; max: the MaximumMessageSize
\* of the queue; maxCached: _queueMaximumMessageSize is set.
\* look: the calls of the lookup that the method starts with; prep: the state of
\* perpareMessageRequest and the calls it waits for; out: the calls of the send;
\* net: every network call issued, in order; uploaded: the body given to
\* uploadBlob; body, s3Marker: MessageBody and the S3_MARKER attribute of the
\* request
PrepCall(api, gzipAttr, s3Attr, gzip, size, max, maxCached) ==
    [pc |-> "prepare", api |-> api, gzipAttr |-> gzipAttr, s3Attr |-> s3Attr,
     gzip |-> gzip, size |-> size, max |-> max, maxCached |-> maxCached,
     look |-> <<>>, prep |-> "none", wait |-> <<>>, out |-> <<>>, net |-> <<>>,
     uploaded |-> "none", body |-> "plain", s3Marker |-> FALSE]

PrepInputs ==
    { PrepCall(api, g, s, z, size, PrepMax, cached) :
        api \in {"sendMessage", "sendMessages"}, g \in AttrValues, s \in AttrValues,
        z \in BOOLEAN, size \in 1..(PrepMax + 1), cached \in BOOLEAN }

\* lines 703-708: the request is rejected
prepareRejects(gzipAttr, s3Attr) == gzipAttr = "truthy" \/ s3Attr = "truthy"

\* getQueueUrl, lines 308-326: the network calls it makes
urlLookup(url) == IF url THEN <<>> ELSE <<"getQueueUrl">>

\* getQueueMaximumMessageSize, lines 347-364: the network calls it makes, in order
maxLookup(cached, url) ==
    IF cached THEN <<>> ELSE urlLookup(url) \o <<"getQueueAttributes">>

\* isLargeMessage, lines 690-699
isLargeMessage(messageSize, minSize, queueMaximumMessageSize) ==
    IF minSize # 0 THEN messageSize > minSize
    ELSE messageSize >= queueMaximumMessageSize

\* the first call of a chain is issued
issue(s, chain) == IF chain = <<>> THEN s.net ELSE Append(s.net, Head(chain))

\* lines 752-756: isLargeMessage has answered
largeKnown(s) ==
    IF isLargeMessage(s.size, opts.minS3Size, s.max)
    THEN [s EXCEPT !.prep = "upload", !.wait = <<"uploadBlob">>,
                   !.net = Append(@, "uploadBlob"),
                   !.uploaded = s.body]
    ELSE [s EXCEPT !.prep = "ready", !.wait = <<>>]

\* lines 746-751: the body is final
bodyKnown(s, url) ==
    IF ~opts.s3Fallback THEN [s EXCEPT !.prep = "ready", !.wait = <<>>]
    ELSE IF opts.minS3Size # 0 \/ maxLookup(s.maxCached, url) = <<>>
    THEN largeKnown(s)
    ELSE [s EXCEPT !.prep = "large", !.wait = maxLookup(s.maxCached, url),
                   !.net = issue(s, maxLookup(s.maxCached, url))]

\* lines 757-765: the blob is stored
uploadDone(s) ==
    [s EXCEPT !.prep = "ready", !.wait = <<>>, !.body = "pointer", !.s3Marker = TRUE]

\* lines 407-415 and 436-456, 638-658: the request is prepared and the lookup
\* has answered: the send call is made (sendMessages: after getQueueUrl)
sendKnown(s, url) ==
    IF s.pc = "working" /\ s.prep = "ready" /\ s.look = <<>> /\ s.out = <<>>
    THEN LET calls == IF s.api = "sendMessage" THEN <<"sendMessage">>
                      ELSE urlLookup(url) \o <<"sendMessageBatch">>
         IN  [s EXCEPT !.pc = "sending", !.out = calls, !.net = Append(@, Head(calls))]
    ELSE s

\* lines 701-745 with 403-406 and 424-435: the turn of the call
prepare(s, url) ==
    LET look == IF s.api = "sendMessage" THEN urlLookup(url)
                ELSE maxLookup(s.maxCached, url)
        a == [s EXCEPT !.look = look, !.net = issue(s, look)]
    IN  IF prepareRejects(s.gzipAttr, s.s3Attr)
        THEN [a EXCEPT !.pc = "rejected", !.prep = "rejected"]
        ELSE IF s.gzip
        THEN [a EXCEPT !.pc = "working", !.prep = "compress", !.body = "gzipped"]
        ELSE sendKnown(bodyKnown([a EXCEPT !.pc = "working"], url), url)

SendPrepare ==
    /\ send # NoSend
    /\ send.pc = "prepare"
    /\ send' = prepare(send, queueUrl)
    /\ last' = Step("send", <<>>)
    /\ UNCHANGED <<fixed, futs, recv, engine, world>>

\* compressMessage, line 735, has settled
SendCompressed ==
    /\ send # NoSend
    /\ send.pc = "working" /\ send.prep = "compress"
    /\ send' = sendKnown(bodyKnown(send, queueUrl), queueUrl)
    /\ last' = Step("compressed", <<>>)
    /\ UNCHANGED <<fixed, futs, recv, engine, world>>

\* the caches after the answer to a call: lines 317 and 361
answered(s, call) == [s EXCEPT !.maxCached = @ \/ call = "getQueueAttributes"]

\* the next call of a chain is made when the one before it is answered
chained(s, chain) == [s EXCEPT !.net = issue(s, Tail(chain))]

\* the answer to the call that one of the three chains waits for
SendAnswer ==
    /\ send # NoSend
    /\ send.pc \in {"working", "sending", "rejected"}
    /\ \/ /\ send.look # <<>>
          /\ queueUrl' = (queueUrl \/ Head(send.look) = "getQueueUrl")
          /\ send' = sendKnown([chained(answered(send, Head(send.look)), send.look)
                                   EXCEPT !.look = Tail(send.look)], queueUrl')
       \/ /\ send.wait # <<>>
          /\ queueUrl' = (queueUrl \/ Head(send.wait) = "getQueueUrl")
          /\ LET a == [chained(answered(send, Head(send.wait)), send.wait)
                          EXCEPT !.wait = Tail(send.wait)]
             IN  send' = IF a.wait # <<>> THEN a
                         ELSE IF a.prep = "large" THEN sendKnown(largeKnown(a), queueUrl')
                         ELSE sendKnown(uploadDone(a), queueUrl')
       \/ /\ send.out # <<>>
          /\ queueUrl' = (queueUrl \/ Head(send.out) = "getQueueUrl")
          /\ LET a == [chained(send, send.out) EXCEPT !.out = Tail(send.out)]
             IN  send' = IF a.out = <<>> THEN [a EXCEPT !.pc = "sent"] ELSE a
    /\ last' = Step("sendAnswer", <<>>)
    /\ UNCHANGED <<fixed, futs, recv, running, paused, inFlight, activeReq, timeoutExtender,
                   delQueue, delTimer, world>>

InitPrep == InitWith(OptionsPrep, {"send"}, PrepInputs)

NextPrep == SendPrepare \/ SendCompressed \/ SendAnswer

SpecPrep == InitPrep /\ [][NextPrep]_vars

\* ---- attributeUtils: createMessageAttributes, parseMessageAttributes -------
\* A string is the sequence of its characters.  A value of an attribute is a
\* number, a string, a binary value (the sequence of its bytes) or undefined.
Undefined == [t |-> "undefined"]

\* the map has no such name
Absent == [t |-> "absent"]

Num(n) == [t |-> "number", num |-> n]

Str(s) == [t |-> "string", str |-> s]

Bin(b) == [t |-> "binary", bin |-> b]

DigitChars == <<"0", "1", "2", "3", "4", "5", "6", "7", "8", "9">>

\* the decimal digits of a natural number
RECURSIVE digits(_)
digits(n) ==
    IF n < 10 THEN <<DigitChars[n + 1]>>
    ELSE digits(n \div 10) \o <<DigitChars[(n % 10) + 1]>>

\* String(n) of an integer, line 58
String(n) == IF n < 0 THEN <<"-">> \o digits(0 - n) ELSE digits(n)

DigitValue(c) == (CHOOSE d \in 1..10 : DigitChars[d] = c) - 1

RECURSIVE digitsValue(_)
digitsValue(s) ==
    IF s = <<>> THEN 0
    ELSE digitsValue(SubSeq(s, 1, Len(s) - 1)) * 10 + DigitValue(s[Len(s)])

\* Number(s) of the decimal text of an integer, line 35; Number('') is 0
Number(s) ==
    IF s = <<>> THEN 0
    ELSE IF Head(s) = "-" THEN 0 - digitsValue(Tail(s)) ELSE digitsValue(s)

\* JavaScript takes the value as false: undefined, 0, ''
falsy(a) == a = Undefined \/ a = Num(0) \/ a = Str(<<>>)

\* createAttributeValue, lines 51-71
createAttributeValue(unparsedAttribute) ==
    LET a == IF falsy(unparsedAttribute) THEN Str(<<>>) ELSE unparsedAttribute
    IN  IF a.t = "number"
        THEN [DataType |-> "Number", StringValue |-> Str(String(a.num)),
              BinaryValue |-> Undefined]
        ELSE IF a.t = "string"
        THEN [DataType |-> "String", StringValue |-> a, BinaryValue |-> Undefined]
        ELSE [DataType |-> "Binary", StringValue |-> Undefined, BinaryValue |-> a]

\* createMessageAttributes, lines 43-49
createMessageAttributes(messageAttributes) ==
    [name \in DOMAIN messageAttributes |->
        IF messageAttributes[name] = Absent THEN Absent
        ELSE createAttributeValue(messageAttributes[name])]

\* parseAttributeValue, lines 28-41
parseAttributeValue(unparsedAttribute) ==
    IF unparsedAttribute.DataType = "Number"
    THEN Num(Number(unparsedAttribute.StringValue.str))
    ELSE IF unparsedAttribute.DataType = "Binary"
    THEN unparsedAttribute.BinaryValue
    ELSE IF falsy(unparsedAttribute.StringValue)
    THEN unparsedAttribute.BinaryValue
    ELSE unparsedAttribute.StringValue

\* parseMessageAttributes, lines 19-26
parseMessageAttributes(messageAttributes) ==
    [name \in DOMAIN messageAttributes |->
        IF messageAttributes[name] = Absent THEN Absent
        ELSE parseAttributeValue(messageAttributes[name])]

AttrNames == {"a", "b"}

AttrValue ==
    {Undefined, Str(<<>>), Str(<<"1">>), Str(<<"x", "y">>), Bin(<<>>), Bin(<<1>>)}
        \cup {Num(n) : n \in {0 - 1, 0, 1, MaxAttrNum}}

\* a message sent with the attributes a, and received
AttrCall(a) == [pc |-> "attributes", attributes |-> a]

AttrInputs == {AttrCall(a) : a \in [AttrNames -> AttrValue \cup {Absent}]}

\* perpareMessageRequest, line 728
CreateAttributes ==
    /\ send # NoSend
    /\ send.pc = "attributes"
    /\ send' = [pc |-> "created", attributes |-> send.attributes,
                wire |-> createMessageAttributes(send.attributes)]
    /\ last' = Step("createMessageAttributes", <<>>)
    /\ UNCHANGED <<fixed, futs, recv, engine, world>>

\* the attributes of the message received
ParseAttributes ==
    /\ send # NoSend
    /\ send.pc = "created"
    /\ send' = [pc |-> "parsed", attributes |-> send.attributes, wire |-> send.wire,
                parsed |-> parseMessageAttributes(send.wire)]
    /\ last' = Step("parseMessageAttributes", <<>>)
    /\ UNCHANGED <<fixed, futs, recv, engine, world>>

InitAttr == InitWith(Options, {"send"}, AttrInputs)

NextAttr == CreateAttributes \/ ParseAttributes

SpecAttr == InitAttr /\ [][NextAttr]_vars

\* ---- the claims about the preparation of a request ------------------------
\* the caller declared an attribute under the name of a marker
Reserved == send.gzipAttr # "absent" \/ send.s3Attr # "absent"

\* C21: a send whose attributes declare the compression marker or the offload
\* marker, with any value, is rejected and makes no network call, whether or
\* not the queue URL and the maximum message size are cached.
C21_ReservedRejected ==
    (send # NoSend /\ send.pc # "prepare" /\ Reserved) =>
        send.pc = "rejected" /\ send.net = <<>>

\* the size from which a request is offloaded: minS3Size when it is
\* configured, else the maximum message size of the queue
Threshold == IF opts.minS3Size # 0 THEN opts.minS3Size ELSE send.max

Offloaded == send.uploaded # "none"

\* C22: with s3Fallback a request is offloaded if and only if its size is at
\* or above the threshold; exactly then the body, compressed or not, is
\* uploaded once, the body of the request is the pointer and the offload
\* marker is set.
C22_OffloadThreshold ==
    (send # NoSend /\ send.pc \in {"sending", "sent"} /\ opts.s3Fallback) =>
        /\ Offloaded <=> send.size >= Threshold
        /\ Offloaded <=> (send.body = "pointer" /\ send.s3Marker)
        /\ Offloaded => send.uploaded = (IF send.gzip THEN "gzipped" ELSE "plain")
        /\ Count(send.net, "uploadBlob") = (IF Offloaded THEN 1 ELSE 0)

\* ---- the claims about releaseMessage --------------------------------------
\* C25: releaseMessage marks the message handled (inFlight decremented,
\* 'handled' emitted) and then asks for a visibility timeout of 0, within the
\* call; 'released' is emitted only by the turn in which that call succeeds; when
\* the call fails the promise is rejected, nothing is emitted and inFlight
\* stays as the call left it.
C25_Release ==
    /\ [][last'.op = "releaseMessage" =>
            /\ inFlight' = inFlight - 1
            /\ Head(last'.emitted) = "handled"
            /\ Count(last'.emitted, "released") = 0
            /\ follow = "ack" => relCalls' = Append(relCalls, 0)]_vars
    /\ [][Count(last'.emitted, "released") > 0 =>
            /\ last'.op = "released"
            /\ last'.emitted = <<"released">>
            /\ relCalls = <<0>> \o relCalls'
            /\ inFlight' = inFlight]_vars
    /\ [][last'.op = "releaseFail" =>
            /\ last'.emitted = <<>>
            /\ relCalls = <<0>> \o relCalls'
            /\ inFlight' = inFlight
            /\ pollers' = pollers /\ paused' = paused]_vars

\* the only message in flight was released and the call failed: the engine
\* counts no message in flight
C25_Witness ==
    /\ last.op = "releaseFail" /\ inFlight = 0
    /\ parsing = 0 /\ held = 0 /\ lost = 0 /\ running

\* ---- the claims about the 'message' notifications -------------------------
\* C26: the 'message' notifications of one receive response are emitted in the
\* order in which the service returned the records, in turns after the one that
\* emits 'gotMessages' for the response.
C26_MessageOrder ==
    /\ [](\A i, j \in DOMAIN recv.emitted : i < j => recv.emitted[i] < recv.emitted[j])
    /\ [][(recv.records = 0 /\ recv'.records > 0) =>
            /\ last'.emitted[1] = "gotMessages"
            /\ Count(last'.emitted, "message") = 0
            /\ recv'.emitted = <<>>]_vars

\* ---- the claims about the limit of the messages in flight -----------------
\* C27: with maxInFlight > 0, and a service that returns no more records than
\* requested, inFlight never exceeds maxInFlight.
C27_WithinMaxInFlight == opts.maxInFlight > 0 => inFlight <= opts.maxInFlight

\* a response has brought inFlight to maxInFlight while the caller holds more
\* messages than that (a purge has reset the counter before)
C27_Witness ==
    /\ opts.maxInFlight > 0 /\ inFlight = opts.maxInFlight
    /\ last.op = "receive" /\ parsing + held + lost > inFlight

\* ---- the claims about stop() and start() ----------------------------------
\* the engine is running, not paused, and nothing is pending that would reach
\* _getBatch: no receive call, no poller start, no poll timer, no retry timer
Stalled == running /\ ~paused /\ Continuations = 0

\* C28: no interleaving of stop() and start() with a receive call in progress
\* leaves the engine running with the paused flag clear and no call, poller
\* start or timer pending.  (The step of a poller start that fails is left
\* out: it is the subject of C9.)
C28_NoLostWakeup == [][(~Stalled /\ Stalled') => last'.op = "pollerFail"]_vars

\* stop() has been called, its promise has resolved true, and start() has not
\* been called since (the behaviour has one stop() call)
DrainedForGood == signal # NoSignal /\ signal.outcome = "true" /\ ~running

\* C29: once the promise of stop() has resolved true, inFlight stays 0 and no
\* 'message' is emitted until start() is called.
C29_DrainedForGood ==
    /\ [](DrainedForGood => inFlight = 0)
    /\ [][(DrainedForGood /\ ~running') => Count(last'.emitted, "message") = 0]_vars

\* the caller has handled every message it was given and no decode step is
\* in progress
AllHandled == parsing = 0 /\ held = 0

\* C31: a record that was counted in flight is given to the caller, or, when
\* its decode step fails, its slot is returned (inFlight decremented) and the
\* failure is notified; so the promise of a stop() without timeout has
\* resolved true once the caller has handled every message it was given.
C31_NoSlotLeak ==
    /\ [][last'.op = "parseFail" =>
            inFlight' = inFlight - 1 /\ last'.emitted # <<>>]_vars
    /\ []((signal # NoSignal /\ ~signal.timeout /\ AllHandled) =>
            signal.outcome = "true")

\* ---- the claims about the attributes -------------------------------------
\* C23: decoding the wire attributes made by encoding a map of numbers, strings
\* and binary values (0, the empty string and absent values included) gives the
\* map itself, and every number is tagged Number on the wire.
C23_AttributeRoundTrip ==
    (send # NoSend /\ send.pc = "parsed") =>
        /\ send.parsed = send.attributes
        /\ \A name \in DOMAIN send.attributes :
              send.attributes[name].t = "number" => send.wire[name].DataType = "Number"

\* ---- the claims about the delete batcher ----------------------------------
\* the entries that are queued or carried by a call that is not answered
Entries == Range(delQueue) \cup UNION {Range(delCalls[i]) : i \in DOMAIN delCalls}

\* the identifier given to the deleteMessage call that made the newest future
NewestId == (CHOOSE e \in Entries : e.fut = Len(futs)).Id

\* the last turn was a deleteMessage whose entry is the n-th of the queue
Enqueued(n) ==
    /\ last'.op = "deleteMessage"
    /\ Len(futs') = Len(futs) + 1
    /\ NewestId' \notin Ids(delQueue)
    /\ Len(delQueue) + 1 = n

\* C11: a deleteMessage that brings the queue to deleteBatchSize entries issues
\* one batched call with exactly these entries, oldest first, within the call,
\* removes them from the queue, and leaves no debounce timer pending.
C11_SizeFlush ==
    [][Enqueued(opts.deleteBatchSize) =>
        /\ Len(delCalls') = Len(delCalls) + 1
        /\ delCalls'[Len(delCalls')] =
              Append(delQueue, [Id |-> NewestId', fut |-> Len(futs')])
        /\ SubSeq(delCalls', 1, Len(delCalls)) = delCalls
        /\ delQueue' = <<>>
        /\ delTimer' = 0
        /\ delTimers' = {}]_vars

Carried(batch) == {batch[i].fut : i \in DOMAIN batch} \ {0}

\* C13: when a batched call returns, every entry listed as failed has its
\* future rejected and 'delError' emitted by the engine and by the message,
\* every entry listed as successful has its future resolved and 'deleted'
\* emitted by both; no settled future changes afterwards.
C13_PerItemResult ==
    /\ [](\A f \in DOMAIN futs :
            /\ futs[f].answer = "failed" =>
                  /\ futs[f].state = "rejected"
                  /\ futs[f].notes = <<"delError", "msg.delError">>
            /\ futs[f].answer = "successful" =>
                  /\ futs[f].state = "resolved"
                  /\ futs[f].notes = <<"deleted", "msg.deleted">>
            /\ futs[f].state # "pending" => futs[f].answer \in {"failed", "successful"})
    /\ [][\A f \in DOMAIN futs :
            futs[f].state # "pending" => futs'[f] = futs[f]]_vars
    /\ [][last'.op = "deleted" =>
            \E i \in DOMAIN delCalls :
                /\ delCalls' = Remove(delCalls, i)
                /\ \A f \in Carried(delCalls[i]) :
                      futs'[f].answer \in {"failed", "successful"}
                /\ Count(last'.emitted, "delError") =
                      Cardinality({f \in Carried(delCalls[i]) : futs'[f].answer = "failed"})
                /\ Count(last'.emitted, "deleted") =
                      Cardinality({f \in Carried(delCalls[i]) : futs'[f].answer = "successful"})
                /\ Len(last'.emitted) = Len(delCalls[i])]_vars

\* a call with two entries was answered with one failed and one successful
C13_Witness ==
    /\ last.op = "deleted"
    /\ \E f, g \in DOMAIN futs :
          futs[f].state = "rejected" /\ futs[g].state = "resolved"
    /\ Count(last.emitted, "delError") = 1 /\ Count(last.emitted, "deleted") = 1

\* C14: a batched call that fails as a whole emits one 'error' and nothing
\* else, its futures stay pending for ever, and its entries do not return to
\* the queue.
C14_WholeBatchFailure ==
    /\ [](\A f \in DOMAIN futs :
            futs[f].answer = "error" =>
                /\ futs[f].state = "pending"
                /\ futs[f].notes = <<>>
                /\ \A e \in Entries : e.fut # f)
    /\ [][last'.op = "deleteFail" =>
            /\ last'.emitted = <<"error">>
            /\ delQueue' = delQueue
            /\ \E i \in DOMAIN delCalls :
                  /\ delCalls' = Remove(delCalls, i)
                  /\ \A f \in Carried(delCalls[i]) : futs'[f].answer = "error"]_vars

\* a call failed as a whole, and a later call was answered
C14_Witness ==
    \E f, g \in DOMAIN futs :
        f < g /\ futs[f].answer = "error" /\ futs[g].answer \in {"failed", "successful"}

\* C15: deleteMessage stores the entry under the identifier of the message,
\* emits 'delQueued', decrements inFlight by one and emits 'handled', then
\* 'drained' when inFlight is 0, all within the call; the flush and the answer
\* to the batched call leave inFlight as it is.
C15_HandledAtOnce ==
    /\ [][last'.op = "deleteMessage" =>
            /\ inFlight' = inFlight - 1
            /\ last'.emitted =
                  IF inFlight' = 0 THEN <<"delQueued", "handled", "drained">>
                  ELSE <<"delQueued", "handled">>
            /\ Len(futs') = Len(futs) + 1
            /\ \E e \in Entries' : e.fut = Len(futs') /\ e.Id \in 1..MaxMsgId]_vars
    /\ [][last'.op \in {"delTimer", "deleted", "deleteFail"} =>
            inFlight' = inFlight]_vars

\* the last message in flight was deleted: its entry is queued, no call is issued yet
C15_Witness ==
    /\ last.op = "deleteMessage" /\ inFlight = 0
    /\ last.emitted = <<"delQueued", "handled", "drained">>
    /\ Len(delQueue) = 1 /\ delCalls = <<>>

\* C16: every accepted delete request is carried by exactly one batched call:
\* by at most one, a request that no call has carried yet is still queued with
\* its own future, and a future is settled only by the call that carried it.
C16_ExactlyOnce ==
    \A f \in DOMAIN futs :
        /\ futs[f].calls <= 1
        /\ futs[f].calls = 0 => \E e \in Range(delQueue) : e.fut = f
        /\ futs[f].state # "pending" => futs[f].calls = 1

\* C17: in every reachable state at most one debounce timer is pending.
C17_OneDebounceTimer == Cardinality(delTimers) <= 1

\* C30: without purgeQueue the delete queue holds fewer than deleteBatchSize
\* entries after every deleteMessage and every debounce expiry (in every
\* state), and a debounce timer is pending exactly when the queue is not
\* empty: the one that _delTimer names.
C30_QueueAndTimer ==
    /\ Len(delQueue) < opts.deleteBatchSize
    /\ delTimers # {} <=> delQueue # <<>>
    /\ delTimer # 0 <=> delQueue # <<>>
    /\ delTimers \subseteq {delTimer}

\* two deletes are queued below a deleteBatchSize of 3, with the timer pending
C30_Witness ==
    /\ last.op = "deleteMessage" /\ opts.deleteBatchSize = 3
    /\ Len(delQueue) = 2 /\ delTimers = {delTimer}

\* ---- the retry timer ------------------------------------------------------
\* C18: in every reachable state at most one retry timer is pending.
C18_OneRetryTimer == retryTimers <= 1

\* ---- the claims about sendMessages ----------------------------------------
\* the cumulative size of a batch
RECURSIVE BatchSize(_, _)
BatchSize(msgs, batch) ==
    IF batch = <<>> THEN 0
    ELSE msgs[Head(batch) + 1] + BatchSize(msgs, Tail(batch))

\* the batches hold every request once, in the order of the input
RECURSIVE Flatten(_)
Flatten(batches) ==
    IF batches = <<>> THEN <<>> ELSE Head(batches) \o Flatten(Tail(batches))

Sent == send # NoSend /\ send.pc = "sent"

\* C19 as stated: every batch submitted has at most AWS_MAX_SEND_BATCH
\* requests and a cumulative size strictly below the maximum message size.
C19_Original ==
    Sent => \A b \in DOMAIN send.batches :
                /\ Len(send.batches[b]) <= AWS_MAX_SEND_BATCH
                /\ BatchSize(send.msgs, send.batches[b]) < send.max

\* C19 amended: every batch has between 1 and AWS_MAX_SEND_BATCH requests, and
\* a cumulative size strictly below the maximum unless it is made of one
\* request whose own size is not below the maximum; the batches hold the
\* requests of the input in order.
C19_BatchLimits ==
    Sent =>
        /\ Flatten(send.batches) = [i \in 1..Len(send.msgs) |-> i - 1]
        /\ \A b \in DOMAIN send.batches :
              /\ Len(send.batches[b]) \in 1..AWS_MAX_SEND_BATCH
              /\ \/ BatchSize(send.msgs, send.batches[b]) < send.max
                 \/ /\ Len(send.batches[b]) = 1
                    /\ send.msgs[send.batches[b][1] + 1] >= send.max

\* eleven requests: the count limit closed the first batch of ten although the
\* eleventh request would have fitted under the size limit
C19_Witness ==
    /\ Sent /\ Len(send.msgs) = AWS_MAX_SEND_BATCH + 1 /\ Len(send.batches) = 2
    /\ Len(send.batches[1]) = AWS_MAX_SEND_BATCH
    /\ BatchSize(send.msgs, send.batches[1]) + send.msgs[AWS_MAX_SEND_BATCH + 1] < send.max

\* C24: the batches hold every request exactly once and in the order of the
\* input, no batch is empty, and a request is the first of a new batch exactly
\* when the batch before it holds a multiple of AWS_MAX_SEND_BATCH requests or
\* its size added to the size of that batch reaches the maximum message size.
C24_Partition ==
    Sent =>
        /\ Flatten(send.batches) = [i \in 1..Len(send.msgs) |-> i - 1]
        /\ \A b \in DOMAIN send.batches : send.batches[b] # <<>>
        /\ \A b \in DOMAIN send.batches : \A j \in DOMAIN send.batches[b] :
              LET current == IF j > 1 THEN SubSeq(send.batches[b], 1, j - 1)
                             ELSE IF b > 1 THEN send.batches[b - 1] ELSE <<>>
                  starts  == \/ Len(current) % AWS_MAX_SEND_BATCH = 0
                             \/ BatchSize(send.msgs, current)
                                   + send.msgs[send.batches[b][j] + 1] >= send.max
              IN  (j = 1) <=> starts

\* the size limit closed a batch of several requests, fewer than ten, and the
\* batch after it was closed too
C24_Witness ==
    /\ Sent /\ Len(send.batches) >= 3
    /\ \E b \in DOMAIN send.batches :
          /\ b + 1 \in DOMAIN send.batches
          /\ Len(send.batches[b]) \in 2..(AWS_MAX_SEND_BATCH - 1)
          /\ Len(send.batches[b + 1]) >= 2

\* C20: the identifier of every entry is the position of its request in the
\* input list, and the identifiers of one call are pairwise distinct.
C20_IdIsInputIndex ==
    Sent =>
        /\ \A b \in DOMAIN send.batches : \A j \in DOMAIN send.batches[b] :
              send.ids[b][j] = toString(send.batches[b][j])
        /\ \A b, c \in DOMAIN send.ids :
              \A j \in DOMAIN send.ids[b] : \A k \in DOMAIN send.ids[c] :
                  send.ids[b][j] = send.ids[c][k] => (b = c /\ j = k)

====
